---- MODULE Spec2Model ----
\* Model of anu.py: the certificate checker of bbpvp_check_sertifikat.
\*   email_to_filename  (anu.py 16-26)   pure string conversion
\*   check_pdf_exists   (anu.py 28-72)   HEAD request with bounded retry
\*   process_event      (anu.py 74-238)  batch over the e-mails of one CSV file
\* Strings whose characters matter (e-mails, header names, content types) are
\* sequences of one-character strings; fixed text is kept as one token.
EXTENDS Integers, Sequences, FiniteSets, TLC

\* ------------------------------------------------------------------ bounds
MaxLen == 1          \* longest cell of the e-mail column, in characters
MaxRows == 2         \* most rows read from the CSV file
MaxAttempts == 3     \* largest max_retries passed to check_pdf_exists directly
MaxIdLen == 3        \* longest identity whose address is derived on its own

\* ------------------------------------------------------- program constants
DefaultMaxRetries == 5
DefaultRetryDelay == 5
ShownFailures == 5
\* the retry policy process_event prints for the batch
AnnouncedAttempts == 3
AnnouncedDelay == 2

Alphabet == {"a", "@", " "}
Whitespace == {" "}
Delays == {2, DefaultRetryDelay}
\* two of the event codes of main; a batch is modelled for the first
FirstEventCode == "681ec43c"
EventCodes == {FirstEventCode, "41236a8e"}
StatusCodes == {200, 203, 404}
\* values of the content-type header; NoHeader is a response without it
NoHeader == <<"<absent>">>
ContentTypes == {<<"application/", "p", "d", "f">>,
                 <<"application/", "P", "D", "F">>,
                 NoHeader}
Responses == [status_code : StatusCodes, content_type : ContentTypes]
\* the exception classes check_pdf_exists names in its except clauses
Exceptions == {"Timeout", "ConnectionError", "RequestException"}
\* header rows of the CSV files
FieldEmail == <<"E", "-", "M", "a", "i", "l">>
FieldEMAIL == <<"E", "M", "A", "I", "L", " ", "a">>
FieldNama == <<"n", "a", "m", "a">>
Headers == {<<FieldNama, FieldEMAIL>>, <<FieldNama, FieldEmail>>}
\* a missing DictReader value (restval None): a token no string contains
NoneCell == <<"None">>

RECURSIVE StringsOfLen(_)
StringsOfLen(n) ==
    IF n = 0 THEN {<<>>}
    ELSE {Append(s, c) : s \in StringsOfLen(n - 1), c \in Alphabet}

Strings == UNION {StringsOfLen(n) : n \in 0..MaxLen}

RECURSIVE SeqsUpTo(_, _)
SeqsUpTo(S, n) ==
    IF n = 0 THEN {<<>>}
    ELSE SeqsUpTo(S, n - 1) \cup
         {Append(q, x) : q \in {r \in SeqsUpTo(S, n - 1) : Len(r) = n - 1}, x \in S}

\* --------------------------------------------------------- string helpers
\* str.lower() on the characters the model uses
Lower(s) ==
    [i \in 1..Len(s) |->
        CASE s[i] = "P" -> "p"
          [] s[i] = "D" -> "d"
          [] s[i] = "F" -> "f"
          [] s[i] = "E" -> "e"
          [] s[i] = "M" -> "m"
          [] s[i] = "A" -> "a"
          [] s[i] = "I" -> "i"
          [] s[i] = "L" -> "l"
          [] OTHER -> s[i]]

\* the Python test `sub in s`
Contains(sub, s) ==
    \E i \in 0..(Len(s) - Len(sub)) :
        \A j \in 1..Len(sub) : s[i + j] = sub[j]

RECURSIVE LStrip(_)
LStrip(s) ==
    IF s # <<>> /\ Head(s) \in Whitespace THEN LStrip(Tail(s)) ELSE s

RECURSIVE RStrip(_)
RStrip(s) ==
    IF s # <<>> /\ s[Len(s)] \in Whitespace
    THEN RStrip(SubSeq(s, 1, Len(s) - 1)) ELSE s

\* str.strip()
Strip(s) == RStrip(LStrip(s))

\* variant of email_to_filename with the lower-casing of line 19 switched on
email_to_filename_lower(email) ==
    Lower([i \in 1..Len(email) |-> IF email[i] = "@" THEN "_" ELSE email[i]])

\* variant of email_to_filename that drops the '@'
email_to_filename_drop(email) ==
    LET NotAt(c) == c # "@" IN SelectSeq(email, NotAt)

\* email.replace('@', '_')
email_to_filename(email) ==
    [i \in 1..Len(email) |-> IF email[i] = "@" THEN "_" ELSE email[i]]

UrlPrefix == "https://bbpvpbekasi.kemnaker.go.id/bulanvokasi/sertifikatbv/"

\* f"{prefix}{event_code}/{email_filename}.pdf"
Url(email, event_code) ==
    <<UrlPrefix, event_code, "/">> \o email_to_filename(email) \o <<".pdf">>

\* ------------------------------------------------------- check_pdf_exists
Msg(text, n) == [text |-> text, n |-> n]
NoMsg == Msg("", 0)
NoRet == [exists |-> FALSE, url |-> <<>>, message |-> NoMsg]
NoResp == [status_code |-> 0, content_type |-> NoHeader]

\* response.headers.get('content-type', '').lower()
ContentTypeOf(response) ==
    Lower(IF response.content_type = NoHeader THEN <<>> ELSE response.content_type)

\* lines 40-48: the return value for a completed response
Classify(response, url) ==
    IF response.status_code = 200
    THEN IF Contains(<<"p", "d", "f">>, ContentTypeOf(response))
         THEN [exists |-> TRUE, url |-> url, message |-> Msg("PDF exists", 0)]
         ELSE [exists |-> FALSE, url |-> url,
               message |-> Msg("URL exists but not a PDF", 0)]
    ELSE [exists |-> FALSE, url |-> url,
          message |-> Msg("HTTP Status", response.status_code)]

\* variant of Caught without the clause of line 64
CaughtNoGeneric(exc) == exc \in {"Timeout", "ConnectionError"}

\* the except clauses of lines 50, 57, 64
Caught(exc) == exc \in {"Timeout", "ConnectionError", "RequestException"}

\* variant of ShouldRetry that also sleeps after the last attempt
ShouldRetryInclusive(att, maxr) == att <= maxr

\* the test `attempt < max_retries` of lines 51, 58, 65
ShouldRetry(att, maxr) == att < maxr

\* variant of FailRet that reports every failure as a timeout
FailRetAlwaysTimeout(exc, maxr, url) ==
    [exists |-> FALSE, url |-> url,
     message |-> Msg("Connection timeout (failed after)", maxr)]

\* lines 55, 62, 69: the return value once the attempts are used up
FailRet(exc, maxr, url) ==
    [exists |-> FALSE, url |-> url,
     message |-> CASE exc = "Timeout" -> Msg("Connection timeout (failed after)", maxr)
                   [] exc = "ConnectionError" -> Msg("Connection error (failed after)", maxr)
                   [] OTHER -> Msg("Request error (failed after)", maxr)]

\* variant of UnknownRet that reports a request error
UnknownRetAsFailure(url) ==
    [exists |-> FALSE, url |-> url, message |-> Msg("Request error (failed after)", 0)]

\* line 72
UnknownRet(url) == [exists |-> FALSE, url |-> url, message |-> Msg("Unknown error", 0)]

\* ------------------------------------------------------------------ state
VARIABLES
    \* the CSV file of the event, as process_event finds it
    file_exists,   \* os.path.exists(csv_file)
    sniff,         \* csv.Sniffer().has_header: "header", "noheader" or "error"
    fieldnames,    \* reader.fieldnames
    raw,           \* the cell each row holds in the e-mail column
    \* process_event
    pc,            \* position in process_event ("none": not running,
                   \* "interrupted": left by a KeyboardInterrupt)
    event_code,
    emails,
    idx,           \* enumerate(emails, 1): position of the current e-mail
    results,
    summary,       \* total, success, failed of lines 167-169
    files,         \* the files written: "log" and "urls", with their content
    retval,        \* return value of process_event: "none", TRUE or FALSE
    net_used,      \* whether requests.head was called since process_event began
    derived,       \* the arguments email_to_filename was called with in this run
    \* check_pdf_exists (the active call)
    ppc,           \* "idle", "loop", "try", "sleep", "returned", "raised"
    p_email,
    p_event,
    max_retries,
    retry_delay,
    attempt,
    nreq,          \* calls of requests.head made by this call
    nsleep,        \* calls of time.sleep made by this call
    slept,         \* total time slept by this call
    resp,          \* the response received, NoResp when none
    lastexc,       \* the exception being handled ("none" outside an except clause
                   \* that goes on to the next attempt)
    ret,           \* the returned tuple (exists, url, message)
    printed,       \* failure classes named by the retry messages of lines 52, 59,
                   \* 66, kept for a call that runs on its own
    \* email_to_filename and the address template, applied to two identities
    d_id1,
    d_id2,
    d_group,
    d_addr1,       \* the address derived from d_id1, NoAddr before
    d_addr2

fvars == <<file_exists, sniff, fieldnames, raw>>
bvars == <<pc, event_code, emails, idx, results, summary, files, retval, net_used,
           derived>>
pvars == <<ppc, p_email, p_event, max_retries, retry_delay, attempt, nreq, nsleep,
           slept, resp, lastexc, ret, printed>>
dvars == <<d_id1, d_id2, d_group, d_addr1, d_addr2>>
vars == <<fvars, bvars, pvars, dvars>>

\* no address derived yet
NoAddr == <<>>

\* the two-identity derivation is not in use
NoDerivation ==
    /\ d_id1 = <<>> /\ d_id2 = <<>> /\ d_group = ""
    /\ d_addr1 = NoAddr /\ d_addr2 = NoAddr

NoSummary == [total |-> 0, success |-> 0, failed |-> 0]

\* no call of check_pdf_exists is active
IdleFrame ==
    /\ ppc = "idle" /\ p_email = <<>> /\ p_event = "" /\ max_retries = 0
    /\ retry_delay = 0 /\ attempt = 0 /\ nreq = 0 /\ nsleep = 0 /\ slept = 0
    /\ resp = NoResp /\ lastexc = "none" /\ ret = NoRet /\ printed = <<>>

\* entry of check_pdf_exists(email, event_code, max_retries, retry_delay)
Call(email, code, maxr, delay) ==
    /\ ppc' = "loop" /\ p_email' = email /\ p_event' = code /\ max_retries' = maxr
    /\ retry_delay' = delay /\ attempt' = 1 /\ nreq' = 0 /\ nsleep' = 0 /\ slept' = 0
    /\ resp' = NoResp /\ lastexc' = "none" /\ ret' = NoRet /\ printed' = <<>>

\* the frame is dropped when the caller has taken the return value
PopFrame ==
    /\ ppc' = "idle" /\ p_email' = <<>> /\ p_event' = "" /\ max_retries' = 0
    /\ retry_delay' = 0 /\ attempt' = 0 /\ nreq' = 0 /\ nsleep' = 0 /\ slept' = 0
    /\ resp' = NoResp /\ lastexc' = "none" /\ ret' = NoRet /\ printed' = <<>>

\* line 36 with lines 71-72: the loop head of `for attempt in range(1, max_retries + 1)`
ForAttempt ==
    /\ ppc = "loop"
    /\ IF attempt <= max_retries
       THEN ppc' = "try" /\ ret' = ret
       ELSE ppc' = "returned" /\ ret' = UnknownRet(Url(p_email, p_event))
    /\ UNCHANGED <<p_email, p_event, max_retries, retry_delay, attempt, nreq, nsleep,
                   slept, resp, lastexc, printed>>
    /\ UNCHANGED <<dvars, fvars, bvars>>

\* lines 38-48: requests.head completes with a response
HeadResponds ==
    /\ ppc = "try"
    /\ \E r \in Responses :
         /\ resp' = r
         /\ ret' = Classify(r, Url(p_email, p_event))
    /\ nreq' = nreq + 1
    /\ ppc' = "returned"
    /\ net_used' = TRUE
    /\ UNCHANGED <<p_email, p_event, max_retries, retry_delay, attempt, nsleep, slept,
                   lastexc, printed>>
    /\ UNCHANGED <<dvars, fvars, pc, event_code, emails, idx, results, summary, files, retval,
                   derived>>

\* lines 38, 50-69: requests.head raises; an exception no clause catches leaves
\* check_pdf_exists and, in a batch, is caught by process_event (lines 234-236)
HeadRaises ==
    /\ ppc = "try"
    /\ nreq' = nreq + 1
    /\ net_used' = TRUE
    /\ \E e \in Exceptions :
         /\ lastexc' = e
         /\ IF ~Caught(e)
            THEN /\ ret' = ret /\ printed' = printed
                 /\ IF pc = "probing"
                    THEN ppc' = "idle" /\ pc' = "done" /\ retval' = FALSE
                    ELSE ppc' = "raised" /\ pc' = pc /\ retval' = retval
            ELSE /\ UNCHANGED <<pc, retval>>
                 /\ IF ShouldRetry(attempt, max_retries)
                    THEN /\ ppc' = "sleep" /\ ret' = ret
                         /\ printed' = IF pc = "none" THEN Append(printed, e) ELSE printed
                    ELSE /\ ppc' = "returned"
                         /\ ret' = FailRet(e, max_retries, Url(p_email, p_event))
                         /\ printed' = printed
    /\ UNCHANGED <<p_email, p_event, max_retries, retry_delay, attempt, nsleep, slept, resp>>
    /\ UNCHANGED <<dvars, fvars, event_code, emails, idx, results, summary, files, derived>>

\* variant of Sleep that goes on without counting the attempt
SleepNoIncrement ==
    /\ ppc = "sleep"
    /\ nsleep' = nsleep + 1
    /\ slept' = slept + retry_delay
    /\ lastexc' = "none"
    /\ ppc' = "loop"
    /\ UNCHANGED <<p_email, p_event, max_retries, retry_delay, attempt, nreq, resp, ret,
                   printed>>
    /\ UNCHANGED <<dvars, fvars, bvars>>

\* lines 53, 60, 67: time.sleep(retry_delay); the except clause ends, which
\* drops the exception, and the loop goes to its next iteration
Sleep ==
    /\ ppc = "sleep"
    /\ nsleep' = nsleep + 1
    /\ slept' = slept + retry_delay
    /\ attempt' = attempt + 1
    /\ lastexc' = "none"
    /\ ppc' = "loop"
    /\ UNCHANGED <<p_email, p_event, max_retries, retry_delay, nreq, resp, ret, printed>>
    /\ UNCHANGED <<dvars, fvars, bvars>>

ProbeStep == ForAttempt \/ HeadResponds \/ HeadRaises \/ Sleep

\* check_pdf_exists called on its own, with any arguments
InitProbe ==
    /\ file_exists = FALSE /\ sniff = "error" /\ fieldnames = <<>> /\ raw = <<>>
    /\ pc = "none" /\ event_code = "" /\ emails = <<>> /\ idx = 0 /\ results = <<>>
    /\ summary = NoSummary /\ files = <<>> /\ retval = "none" /\ net_used = FALSE
    /\ NoDerivation
    /\ ppc = "loop"
    /\ p_email \in Strings
    /\ derived = {p_email}
    /\ p_event \in EventCodes
    /\ max_retries \in 0..MaxAttempts
    /\ retry_delay \in Delays
    /\ attempt = 1 /\ nreq = 0 /\ nsleep = 0 /\ slept = 0
    /\ resp = NoResp /\ lastexc = "none" /\ ret = NoRet /\ printed = <<>>

SpecProbe == InitProbe /\ [][ProbeStep]_vars

\* ------------------------------------------- the address of two identities
\* characters of the identities whose address is derived on its own
IdAlphabet == {"A", "@", "_", "."}

RECURSIVE IdsOfLen(_)
IdsOfLen(n) ==
    IF n = 0 THEN {<<>>}
    ELSE {Append(s, c) : s \in IdsOfLen(n - 1), c \in IdAlphabet}

Identities == UNION {IdsOfLen(n) : n \in 0..MaxIdLen}

\* lines 31-34 for two identities of one event; nothing else runs
InitDerive ==
    /\ file_exists = FALSE /\ sniff = "error" /\ fieldnames = <<>> /\ raw = <<>>
    /\ pc = "none" /\ event_code = "" /\ emails = <<>> /\ idx = 0 /\ results = <<>>
    /\ summary = NoSummary /\ files = <<>> /\ retval = "none" /\ net_used = FALSE
    /\ derived = {}
    /\ IdleFrame
    /\ d_id1 \in Identities
    /\ d_id2 \in Identities
    /\ d_group \in EventCodes
    /\ d_addr1 = NoAddr /\ d_addr2 = NoAddr

\* lines 31-34 applied to the first identity
Derive1 ==
    /\ d_addr1 = NoAddr
    /\ d_addr1' = Url(d_id1, d_group)
    /\ UNCHANGED <<d_id1, d_id2, d_group, d_addr2, fvars, bvars, pvars>>

\* lines 31-34 applied to the second identity
Derive2 ==
    /\ d_addr2 = NoAddr
    /\ d_addr2' = Url(d_id2, d_group)
    /\ UNCHANGED <<d_id1, d_id2, d_group, d_addr1, fvars, bvars, pvars>>

NextDerive == Derive1 \/ Derive2

SpecDerive == InitDerive /\ [][NextDerive]_vars

\* ---------------------------------------------------------- process_event
\* lines 100-105: position of the first field whose lower-cased name contains
\* 'email', 0 when there is none
FindEmailField(fields) ==
    LET hits == {i \in 1..Len(fields) :
                    Contains(<<"e", "m", "a", "i", "l">>, Lower(fields[i]))}
    IN IF hits = {} THEN 0 ELSE CHOOSE i \in hits : \A j \in hits : i <= j

\* the filter `if row[email_field].strip()` of line 111
NonBlank(cell) == Strip(cell) # <<>>

\* line 111: the cells of the e-mail column that are not blank, as they are
ReadWithHeader(cells) == SelectSeq(cells, NonBlank)

\* lines 114-120: every cell, stripped
ReadWithoutHeader(cells) == [i \in 1..Len(cells) |-> Strip(cells[i])]

\* variant of NoEmails that lets an empty list through
NoEmailsNever(ems) == FALSE

\* line 122: `not emails`
NoEmails(ems) == ems = <<>>

\* variant of IsInvalid that only rejects the empty string
IsInvalidEmptyOnly(email) == email = <<>>

\* line 138: `not email or '@' not in email`
IsInvalid(email) == email = <<>> \/ ~Contains(<<"@">>, email)

\* lines 153, 159: the tuple appended to results
ResultOf(email, r) ==
    [email |-> email, exists |-> r.exists, url |-> r.url, message |-> r.message]

\* variant of AppendResult that keeps one record per e-mail
AppendIfNew(res, rec) ==
    IF \E i \in 1..Len(res) : res[i].email = rec.email THEN res ELSE Append(res, rec)

\* variant of AppendResult that loses the record
AppendNothing(res, rec) == res

\* lines 153, 159: results.append(...)
AppendResult(res, rec) == Append(res, rec)

\* variant of CountFound that counts every record with a completed response
CountResponded(res) ==
    Cardinality({i \in 1..Len(res) :
                    res[i].message.text \in {"PDF exists", "URL exists but not a PDF",
                                             "HTTP Status"}})

\* line 168: sum(1 for r in results if r[1])
CountFound(res) == Cardinality({i \in 1..Len(res) : res[i].exists})

\* lines 167-169
Summarise(res) ==
    [total |-> Len(res),
     success |-> CountFound(res),
     failed |-> Len(res) - CountFound(res)]

\* variant of LogFile that marks every completed response FOUND
LogFileMarkResponded(code, sm, res) ==
    [name |-> "log", event |-> code, counts |-> sm,
     rows |-> [i \in 1..Len(res) |->
                 [email |-> res[i].email,
                  filename |-> email_to_filename(res[i].email) \o <<".pdf">>,
                  status |-> IF res[i].message.n = 0 THEN "FOUND" ELSE "MISSING",
                  url |-> res[i].url,
                  message |-> res[i].message]]]

\* lines 208-216: the result log
LogFile(code, sm, res) ==
    [name |-> "log", event |-> code, counts |-> sm,
     rows |-> [i \in 1..Len(res) |->
                 [email |-> res[i].email,
                  filename |-> email_to_filename(res[i].email) \o <<".pdf">>,
                  status |-> IF res[i].exists THEN "FOUND" ELSE "MISSING",
                  url |-> res[i].url,
                  message |-> res[i].message]]]

\* lines 221-230: the list of URLs
UrlsFile(code, res) ==
    [name |-> "urls", event |-> code, counts |-> NoSummary,
     rows |-> [i \in 1..Len(res) |->
                 [email |-> <<>>,
                  filename |-> <<>>,
                  status |-> IF res[i].exists THEN "ok" ELSE "failed",
                  url |-> res[i].url,
                  message |-> IF res[i].exists THEN NoMsg ELSE res[i].message]]]

\* lines 129-131: `if emails:` email_to_filename(emails[0]), for the example
\* conversion
ExampleArgs(ems) == IF ems = <<>> THEN {} ELSE {ems[1]}

\* lines 193-201: the e-mails of the first ShownFailures failed records, each
\* passed to email_to_filename
ShownFailureArgs(res) ==
    LET failedAt == {i \in 1..Len(res) : ~res[i].exists}
    IN {res[i].email : i \in {j \in failedAt :
                                 Cardinality({k \in failedAt : k <= j}) <= ShownFailures}}

\* process_event(event_code) is called with the CSV file in any state
Init ==
    /\ file_exists \in BOOLEAN
    /\ sniff \in IF file_exists THEN {"header", "noheader", "error"} ELSE {"error"}
    /\ fieldnames \in IF sniff = "header" THEN Headers ELSE {<<>>}
    /\ raw \in CASE sniff = "header" /\ FindEmailField(fieldnames) # 0 ->
                      SeqsUpTo(Strings \cup {NoneCell}, MaxRows)
                 [] sniff = "noheader" -> SeqsUpTo(Strings, MaxRows)
                 [] OTHER -> {<<>>}
    /\ pc = "start"
    /\ event_code = FirstEventCode
    /\ emails = <<>> /\ idx = 0 /\ results = <<>> /\ summary = NoSummary
    /\ files = <<>> /\ retval = "none" /\ net_used = FALSE /\ derived = {}
    /\ IdleFrame
    /\ NoDerivation

\* lines 76-80
OpenCsv ==
    /\ pc = "start"
    /\ IF file_exists
       THEN pc' = "read" /\ retval' = retval
       ELSE pc' = "done" /\ retval' = FALSE
    /\ UNCHANGED <<dvars, fvars, pvars, event_code, emails, idx, results, summary, files,
                   net_used, derived>>

\* lines 89-120; an exception while reading is caught at lines 234-236
ReadCsv ==
    /\ pc = "read"
    /\ CASE sniff = "error" ->
             pc' = "done" /\ retval' = FALSE /\ emails' = emails
        [] sniff = "header" /\ FindEmailField(fieldnames) = 0 ->
             pc' = "done" /\ retval' = FALSE /\ emails' = emails
        [] sniff = "header" /\ FindEmailField(fieldnames) # 0
                            /\ (\E i \in 1..Len(raw) : raw[i] = NoneCell) ->
             pc' = "done" /\ retval' = FALSE /\ emails' = emails
        [] sniff = "header" /\ FindEmailField(fieldnames) # 0
                            /\ (\A i \in 1..Len(raw) : raw[i] # NoneCell) ->
             pc' = "check" /\ retval' = retval /\ emails' = ReadWithHeader(raw)
        [] OTHER ->
             pc' = "check" /\ retval' = retval /\ emails' = ReadWithoutHeader(raw)
    /\ UNCHANGED <<dvars, fvars, pvars, event_code, idx, results, summary, files, net_used,
                   derived>>

\* lines 122-136; lines 129-132 show the conversion of the first e-mail
CheckEmails ==
    /\ pc = "check"
    /\ IF NoEmails(emails)
       THEN pc' = "done" /\ retval' = FALSE /\ derived' = derived
       ELSE pc' = "loop" /\ retval' = retval /\ derived' = derived \cup ExampleArgs(emails)
    /\ results' = <<>>
    /\ UNCHANGED <<dvars, fvars, pvars, event_code, emails, idx, summary, files, net_used>>

\* lines 137-142: the next e-mail is skipped or passed to check_pdf_exists,
\* which process_event calls with the default max_retries and retry_delay
ForEmail ==
    /\ pc = "loop"
    /\ idx < Len(emails)
    /\ idx' = idx + 1
    /\ IF IsInvalid(emails[idx + 1])
       THEN pc' = pc /\ UNCHANGED <<pvars, derived>>
       ELSE /\ pc' = "probing"
            /\ Call(emails[idx + 1], event_code, DefaultMaxRetries, DefaultRetryDelay)
            /\ derived' = derived \cup {emails[idx + 1]}
    /\ UNCHANGED <<dvars, fvars, event_code, emails, results, summary, files, retval, net_used>>

\* lines 142-159: the returned tuple is appended to results
Record ==
    /\ pc = "probing"
    /\ ppc = "returned"
    /\ results' = AppendResult(results, ResultOf(emails[idx], ret))
    /\ pc' = "loop"
    /\ PopFrame
    /\ UNCHANGED <<dvars, fvars, event_code, emails, idx, summary, files, retval, net_used,
                   derived>>

\* lines 166-204, after the last e-mail: the summary, and the list of the first
\* failures with their file names
Summary ==
    /\ pc = "loop"
    /\ idx = Len(emails)
    /\ summary' = Summarise(results)
    /\ derived' = derived \cup ShownFailureArgs(results)
    /\ pc' = "log"
    /\ UNCHANGED <<dvars, fvars, pvars, event_code, emails, idx, results, files, retval, net_used>>

\* lines 206-218
WriteLog ==
    /\ pc = "log"
    /\ files' = Append(files, LogFile(event_code, summary, results))
    /\ derived' = derived \cup {results[i].email : i \in 1..Len(results)}
    /\ pc' = "urls"
    /\ UNCHANGED <<dvars, fvars, pvars, event_code, emails, idx, results, summary, retval, net_used>>

\* lines 220-238
WriteUrls ==
    /\ pc = "urls"
    /\ files' = Append(files, UrlsFile(event_code, results))
    /\ pc' = "done"
    /\ retval' = TRUE
    /\ UNCHANGED <<dvars, fvars, pvars, event_code, emails, idx, results, summary, net_used,
                   derived>>

Next ==
    \/ OpenCsv \/ ReadCsv \/ CheckEmails \/ ForEmail \/ Record
    \/ Summary \/ WriteLog \/ WriteUrls
    \/ ForAttempt \/ HeadResponds \/ HeadRaises \/ Sleep

Spec == Init /\ [][Next]_vars

\* the user stops the batch between two e-mails (Ctrl-C): KeyboardInterrupt is
\* no Exception, so the handler of lines 234-236 does not catch it and it leaves
\* process_event, and main, without a return value; lines 166-232 are not run.
\* results keeps the records that had been produced.
Interrupt ==
    /\ pc = "loop"
    /\ idx < Len(emails)
    /\ pc' = "interrupted"
    /\ UNCHANGED <<dvars, fvars, pvars, event_code, emails, idx, results, summary, files,
                   retval, net_used, derived>>

NextCancel ==
    \/ OpenCsv \/ ReadCsv \/ CheckEmails \/ ForEmail \/ Record
    \/ Summary \/ WriteLog \/ WriteUrls
    \/ ForAttempt \/ HeadResponds \/ HeadRaises \/ Sleep
    \/ Interrupt

\* process_event with a user who may stop it between e-mails
SpecCancel == Init /\ [][NextCancel]_vars

\* ------------------------------------------------- outcomes, as the spec names them
\* the ProbeOutcome variant a returned message stands for ("none": no variant)
Variant(message) ==
    CASE message.text = "PDF exists" -> "Confirmed"
      [] message.text = "URL exists but not a PDF" -> "WrongType"
      [] message.text = "HTTP Status" -> "NotFound"
      [] message.text \in {"Connection timeout (failed after)",
                           "Connection error (failed after)",
                           "Request error (failed after)"} -> "TransportFailure"
      [] OTHER -> "none"

Variants == {"Confirmed", "WrongType", "NotFound", "TransportFailure"}

\* a success status: any 2xx code
SuccessStatus(code) == code \in 200..299

\* the media type of the response indicates a PDF
PdfType(response) == Contains(<<"p", "d", "f">>, ContentTypeOf(response))

\* ------------------------------------------------------------------ claims
\* C1: with max_retries >= 1, a call in which every attempt failed at transport
\* level has made exactly max_retries requests and max_retries - 1 sleeps, never
\* sleeps after its last attempt, and returns TransportFailure with found = False.
C1_AllAttemptsFail ==
    /\ (ppc = "sleep" => attempt < max_retries)
    /\ (ppc = "returned" /\ max_retries >= 1 /\ resp = NoResp) =>
          /\ nreq = max_retries
          /\ nsleep = max_retries - 1
          /\ slept = (max_retries - 1) * retry_delay
          /\ ret.exists = FALSE
          /\ Variant(ret.message) = "TransportFailure"

C1_Witness ==
    /\ ppc = "returned" /\ resp = NoResp
    /\ max_retries = MaxAttempts /\ nreq = MaxAttempts
    /\ retry_delay = DefaultRetryDelay /\ slept > 0

\* C2: a completed response is terminal: non-success status gives NotFound, a
\* success status without a PDF media type gives WrongType, and after the response
\* no request and no sleep follows (none at all when it is the first attempt).
C2_ResponseIsTerminal ==
    resp # NoResp =>
      /\ ppc = "returned"
      /\ nreq = attempt /\ nsleep = attempt - 1
      /\ (~SuccessStatus(resp.status_code) => Variant(ret.message) = "NotFound")
      /\ (SuccessStatus(resp.status_code) /\ ~PdfType(resp) =>
             Variant(ret.message) = "WrongType")

\* C3: a response with a 2xx status and a PDF media type returns Confirmed with
\* found = True, and found is True for no other outcome.
C3_SuccessPdfIsConfirmed ==
    ppc = "returned" =>
      /\ (resp # NoResp /\ SuccessStatus(resp.status_code) /\ PdfType(resp) =>
             ret.exists = TRUE /\ Variant(ret.message) = "Confirmed")
      /\ (ret.exists = TRUE => Variant(ret.message) = "Confirmed")

\* C4: for every max_retries the call returns after at most max_retries requests
\* with exactly one outcome, one of the four variants.
C4_OneOfFourOutcomes ==
    /\ nreq <= max_retries
    /\ (ppc = "returned" => Variant(ret.message) \in Variants)

\* C5: no exception raised by requests.head leaves check_pdf_exists; a call whose
\* last attempt raised returns TransportFailure once the attempts are used up.
C5_NoFaultEscapes ==
    /\ ppc # "raised"
    /\ (ppc = "sleep" => lastexc \in Exceptions /\ nreq < max_retries)
    /\ (ppc = "returned" /\ lastexc # "none" /\ resp = NoResp =>
          nreq = max_retries /\ Variant(ret.message) = "TransportFailure")

C5_Witness ==
    /\ ppc = "returned" /\ resp = NoResp
    /\ nreq = MaxAttempts /\ lastexc = "RequestException"

\* an identity is valid when it is non-empty and contains '@'
ValidIdentity(s) == s # <<>> /\ (\E i \in 1..Len(s) : s[i] = "@")

\* the identities of the records produced so far
RecordedEmails == [i \in 1..Len(results) |-> results[i].email]

\* the e-mails the loop of process_event has dealt with completely
Handled == SubSeq(emails, 1, IF pc = "probing" THEN idx - 1 ELSE idx)

\* process_event has returned True
Completed == pc = "done" /\ retval = TRUE

\* C6: an identity that is empty or has no '@' is never passed to the prober,
\* so no request is issued for it, and it never appears in results.
C6_InvalidSkipped ==
    /\ (ppc # "idle" => ValidIdentity(p_email))
    /\ (pc = "probing" => p_email = emails[idx] /\ ValidIdentity(emails[idx]))
    /\ (\A i \in 1..Len(results) : ValidIdentity(results[i].email))
    /\ (net_used => \E i \in 1..Len(emails) : ValidIdentity(emails[i]))

C6_Witness ==
    /\ Completed
    /\ Len(emails) = 2 /\ ~ValidIdentity(emails[1]) /\ ValidIdentity(emails[2])
    /\ Len(results) = 1 /\ net_used

C8_SummaryIsFold ==
    pc \in {"log", "urls"} \/ Completed =>
      /\ summary.total = Len(results)
      /\ summary.total = Len(SelectSeq(emails, ValidIdentity))
      /\ summary.success =
            Cardinality({i \in 1..Len(results) : Variant(results[i].message) = "Confirmed"})
      /\ summary.failed =
            Cardinality({i \in 1..Len(results) :
                            Variant(results[i].message) \in
                                {"WrongType", "NotFound", "TransportFailure"}})
      /\ summary.failed = summary.total - summary.success

C8_Witness ==
    /\ Completed
    /\ summary.total = 2 /\ summary.success = 1
    /\ Variant(results[1].message) = "WrongType"

\* C9: no identity aborts the batch: once the loop has begun, process_event
\* fails no more, every identity it has passed has its record, and it ends
\* only after the last identity.
C9_BatchNeverAborts ==
    /\ (pc = "done" /\ retval = FALSE => idx = 0 /\ ~net_used /\ results = <<>>)
    /\ (pc = "probing" => ppc \in {"loop", "try", "sleep", "returned"})
    /\ (pc = "loop" /\ idx > 0 /\ ValidIdentity(emails[idx]) =>
          results # <<>> /\ results[Len(results)].email = emails[idx])
    /\ (pc \in {"log", "urls"} \/ Completed =>
          idx = Len(emails) /\ Len(results) = Len(SelectSeq(emails, ValidIdentity)))

C9_Witness ==
    /\ Completed
    /\ Len(results) = 2
    /\ Variant(results[1].message) = "TransportFailure"
    /\ Variant(results[2].message) = "Confirmed"

\* the identity sequence cannot be obtained: the file is missing, the header has
\* no e-mail column, or no identity was read
Unobtainable ==
    \/ ~file_exists
    \/ /\ sniff = "header"
       /\ \A i \in 1..Len(fieldnames) :
             ~Contains(<<"e", "m", "a", "i", "l">>, Lower(fieldnames[i]))
    \/ emails = <<>>

\* C10: when the identity sequence cannot be obtained, process_event issues no
\* request, produces no record, writes no file and returns False.
C10_NoInputNoProbe ==
    Unobtainable =>
      /\ ~net_used /\ ppc = "idle"
      /\ results = <<>>
      /\ files = <<>>
      /\ pc \in {"start", "read", "check", "done"}
      /\ (pc = "done" => retval = FALSE)

C10_Witness ==
    /\ pc = "done" /\ retval = FALSE
    /\ file_exists /\ sniff = "header" /\ raw # <<>>
    /\ \A i \in 1..Len(raw) : raw[i] # NoneCell
    /\ \E i \in 1..Len(fieldnames) :
          Contains(<<"e", "m", "a", "i", "l">>, Lower(fieldnames[i]))

\* C11: email_to_filename is called only with identities that are non-empty and
\* contain '@'.
C11_DeriverGetsValidOnly ==
    \A e \in derived : ValidIdentity(e)

\* the records produced so far are in a result log that has been written
RecordsInLog ==
    \E i \in 1..Len(files) :
        /\ files[i].name = "log"
        /\ Len(files[i].rows) = Len(results)
        /\ \A j \in 1..Len(results) :
              /\ files[i].rows[j].email = results[j].email
              /\ files[i].rows[j].url = results[j].url
              /\ files[i].rows[j].message = results[j].message

\* C12: after a cancellation between two identities the records of the
\* identities already probed are still available, unchanged, to the caller or
\* in the durable log.
C12_PartialResultsSurvive ==
    pc = "interrupted" /\ results # <<>> => RecordsInLog

\* the address the template gives for identity id and group g: the fixed prefix,
\* g, '/', id with '_' for every '@' and nothing else changed, '.pdf'
IsAddressOf(addr, id, g) ==
    /\ Len(addr) = Len(id) + 4
    /\ addr[1] = "https://bbpvpbekasi.kemnaker.go.id/bulanvokasi/sertifikatbv/"
    /\ addr[2] = g
    /\ addr[3] = "/"
    /\ \A i \in 1..Len(id) : addr[3 + i] = IF id[i] = "@" THEN "_" ELSE id[i]
    /\ addr[Len(addr)] = ".pdf"

AtPositions(id) == {i \in 1..Len(id) : id[i] = "@"}

\* an identity without its '@'
WithoutAt(id) == LET NotAt(c) == c # "@" IN SelectSeq(id, NotAt)

\* two distinct identities with one '@' each that differ only in where the '@'
\* splits the same characters
SplitVariants(a, b) ==
    /\ a # b
    /\ Cardinality(AtPositions(a)) = 1 /\ Cardinality(AtPositions(b)) = 1
    /\ WithoutAt(a) = WithoutAt(b)

\* the characters that lie between the two splits are all '_'
OnlyUnderscoresBetween(a, b) ==
    LET pa == CHOOSE i \in AtPositions(a) : TRUE
        pb == CHOOSE i \in AtPositions(b) : TRUE
    IN IF pa < pb
       THEN \A i \in (pa + 1)..pb : a[i] = "_"
       ELSE \A i \in (pb + 1)..pa : b[i] = "_"

\* C14 as stated: two identities that differ only in the place of their single
\* '@' never derive the same address.
C14_SplitInjective ==
    d_addr1 # NoAddr /\ d_addr2 # NoAddr /\ SplitVariants(d_id1, d_id2) =>
      d_addr1 # d_addr2

\* C14 as amended: two identities that differ only in the place of their single
\* '@' derive different addresses unless every character between the two
\* places is '_'.
C14_SplitInjectiveAmended ==
    d_addr1 # NoAddr /\ d_addr2 # NoAddr /\ SplitVariants(d_id1, d_id2)
      /\ ~OnlyUnderscoresBetween(d_id1, d_id2) =>
      d_addr1 # d_addr2

C14_Witness ==
    /\ d_addr1 # NoAddr /\ d_addr2 # NoAddr
    /\ d_id1 = <<"A", "@", "_">> /\ d_id2 = <<"@", "A", "_">>
    /\ d_addr1 # d_addr2

\* the number of valid identities among the first n e-mails
ValidAmong(n) == Len(SelectSeq(SubSeq(emails, 1, n), ValidIdentity))

\* C15: probing is sequential: every request and sleep belongs to the current
\* identity, whose predecessors all have their record, and the loop moves to the
\* next identity only when no call is active and the current one is recorded.
C15_StrictlySequential ==
    [][/\ idx' >= idx
       /\ (idx' # idx =>
             /\ ppc = "idle"
             /\ idx' = idx + 1
             /\ Len(results) = ValidAmong(idx))
       /\ (nreq' > nreq \/ nsleep' > nsleep =>
             /\ pc = "probing" /\ idx' = idx
             /\ p_email = emails[idx]
             /\ Len(results) = ValidAmong(idx - 1))]_vars

C15_Witness ==
    /\ pc = "probing" /\ idx = 2
    /\ Len(results) = 1 /\ results[1].email = emails[1]
    /\ nreq >= 2 /\ nsleep >= 1

\* C16: every probe of a batch keeps to the announced retry policy: at most
\* AnnouncedAttempts requests per identity and AnnouncedDelay per sleep.
C16_AnnouncedPolicy ==
    pc = "probing" =>
      /\ nreq <= AnnouncedAttempts
      /\ slept = nsleep * AnnouncedDelay

\* the outcome a response stands for, whatever came before it
ResponseVariant(r) ==
    IF r.status_code # 200 THEN "NotFound"
    ELSE IF PdfType(r) THEN "Confirmed" ELSE "WrongType"

\* C17: when k attempts failed and attempt k + 1 received a response, the call
\* has made k + 1 requests and k sleeps, k < max_retries, and its outcome is
\* Confirmed, WrongType or NotFound as that response alone decides.
C17_ResponseAfterFailures ==
    resp # NoResp =>
      /\ ppc = "returned"
      /\ Len(printed) < max_retries
      /\ nreq = Len(printed) + 1
      /\ nsleep = Len(printed)
      /\ Variant(ret.message) = ResponseVariant(resp)
      /\ ret.exists = (ResponseVariant(resp) = "Confirmed")
      /\ ret.message.n = IF ResponseVariant(resp) = "NotFound" THEN resp.status_code ELSE 0

C17_Witness ==
    /\ resp # NoResp
    /\ printed = <<"Timeout", "ConnectionError">>
    /\ nreq = 3 /\ nsleep = 2
    /\ Variant(ret.message) = "Confirmed"

\* the result logs written
Logs == {i \in 1..Len(files) : files[i].name = "log"}

\* C18: the log is written only after the last identity, has one row per record
\* in record order, marks a row FOUND exactly when its record is Confirmed and
\* MISSING otherwise, and states the counts of the summary; a batch without any
\* valid identity still writes it, with Total 0.
C18_LogMatchesRecords ==
    /\ (pc \in {"start", "read", "check", "loop", "probing"} => files = <<>>)
    /\ (pc = "urls" \/ Completed => Cardinality(Logs) = 1)
    /\ \A i \in Logs :
          /\ idx = Len(emails)
          /\ Len(files[i].rows) = Len(results)
          /\ \A j \in 1..Len(results) :
                /\ files[i].rows[j].email = results[j].email
                /\ files[i].rows[j].url = results[j].url
                /\ files[i].rows[j].message = results[j].message
                /\ files[i].rows[j].status \in {"FOUND", "MISSING"}
                /\ files[i].rows[j].status = "FOUND" <=>
                      Variant(results[j].message) = "Confirmed"
          /\ files[i].counts = summary
          /\ files[i].counts.total = Len(SelectSeq(emails, ValidIdentity))
          /\ files[i].counts.success =
                Cardinality({j \in 1..Len(results) : files[i].rows[j].status = "FOUND"})
          /\ files[i].counts.failed =
                Cardinality({j \in 1..Len(results) : files[i].rows[j].status = "MISSING"})

C18_Witness ==
    /\ Completed
    /\ Len(files[1].rows) = 2
    /\ files[1].rows[1].status = "MISSING" /\ Variant(results[1].message) = "WrongType"
    /\ files[1].rows[2].status = "FOUND"

\* the diagnostic of a failure class
FailureText(exc) ==
    CASE exc = "Timeout" -> "Connection timeout (failed after)"
      [] exc = "ConnectionError" -> "Connection error (failed after)"
      [] exc = "RequestException" -> "Request error (failed after)"

\* C19: when the attempts are used up, the TransportFailure diagnostic names the
\* failure class of the final attempt and max_retries as the attempt count,
\* whatever classes the earlier attempts failed with.
C19_DiagnosticNamesLastFailure ==
    ppc = "returned" /\ resp = NoResp /\ max_retries >= 1 =>
      /\ lastexc \in Exceptions
      /\ Len(printed) = max_retries - 1
      /\ ret.message.text = FailureText(lastexc)
      /\ ret.message.n = max_retries

C19_Witness ==
    /\ ppc = "returned" /\ resp = NoResp
    /\ printed = <<"Timeout", "RequestException">>
    /\ lastexc = "ConnectionError"
    /\ ret.message = Msg("Connection error (failed after)", 3)

\* C20: with max_retries < 1 the call makes no request and no sleep and returns
\* (False, url, "Unknown error"), which is none of the four outcome variants.
C20_NoAttemptsUnknownError ==
    max_retries < 1 =>
      /\ nreq = 0 /\ nsleep = 0 /\ slept = 0
      /\ ppc \in {"loop", "returned"}
      /\ (ppc = "returned" =>
            /\ ret.exists = FALSE
            /\ IsAddressOf(ret.url, p_email, p_event)
            /\ ret.message.text = "Unknown error"
            /\ Variant(ret.message) \notin Variants)

C20_Witness ==
    /\ max_retries = 0 /\ ppc = "returned"
    /\ ret.message.text = "Unknown error"

====
